---- MODULE Spec2Model ----
(***************************************************************************)
(* Model of export-gerencial.py: one run of main() exporting the items,    *)
(* triggers, active problems and recent events of one Zabbix host, the     *)
(* statistics computed by gerar_estatisticas, and the artifacts written by *)
(* salvar_json, gerar_html and gerar_excel.                                *)
(*                                                                         *)
(* A Python dict is a function whose DOMAIN is the set of keys present; a  *)
(* Python list is a sequence; a collections.Counter is the sequence of its *)
(* (key, count) entries in insertion order.                                *)
(***************************************************************************)
EXTENDS Integers, Sequences, FiniteSets, TLC

VARIABLES pc, args, hosts, export_data, stats, files, calls, erro

vars == <<pc, args, hosts, export_data, stats, files, calls, erro>>

----------------------------------------------------------------------------
(* Bounds of the checked input space *)

MaxItens == 2

MaxTriggers == 3

\* rows of a rendered item or trigger table
MaxLinhas == 3

MaxProblemas == 2

MaxEventos == 6

----------------------------------------------------------------------------
(* Reference tables *)

ITEM_TYPES ==
  [c \in {"0", "2", "3", "5", "7", "9", "10", "11", "12", "13", "14", "15",
          "16", "17", "18", "19", "20", "21"} |->
     CASE c = "0" -> "Zabbix agent"
       [] c = "2" -> "Zabbix trapper"
       [] c = "3" -> "Simple check"
       [] c = "5" -> "Zabbix internal"
       [] c = "7" -> "Zabbix agent (active)"
       [] c = "9" -> "Web item"
       [] c = "10" -> "External check"
       [] c = "11" -> "Database monitor"
       [] c = "12" -> "IPMI agent"
       [] c = "13" -> "SSH agent"
       [] c = "14" -> "Telnet agent"
       [] c = "15" -> "Calculated"
       [] c = "16" -> "JMX agent"
       [] c = "17" -> "SNMP trap"
       [] c = "18" -> "Dependent item"
       [] c = "19" -> "HTTP agent"
       [] c = "20" -> "SNMP agent"
       [] c = "21" -> "Script"]

VALUE_TYPES ==
  [c \in {"0", "1", "2", "3", "4"} |->
     CASE c = "0" -> "Numerico (float)"
       [] c = "1" -> "Caractere"
       [] c = "2" -> "Log"
       [] c = "3" -> "Numerico (inteiro)"
       [] c = "4" -> "Texto"]

TRIGGER_PRIORITIES ==
  [c \in {"0", "1", "2", "3", "4", "5"} |->
     CASE c = "0" -> <<"Nao classificada", "#97AAB3">>
       [] c = "1" -> <<"Informacao", "#7499FF">>
       [] c = "2" -> <<"Aviso", "#FFC859">>
       [] c = "3" -> <<"Media", "#FFA059">>
       [] c = "4" -> <<"Alta", "#E97659">>
       [] c = "5" -> <<"Desastre", "#E45959">>]

----------------------------------------------------------------------------
(* Python values *)

\* None, the result of dict.get(k) on a missing key
None == "<None>"

\* the empty dict
EmptyDict == [k \in {} |-> None]

\* d.get(k)
Get(d, k) == IF k \in DOMAIN d THEN d[k] ELSE None

\* d.get(k, default)
GetOr(d, k, default) == IF k \in DOMAIN d THEN d[k] ELSE default

\* bool(d.get(k)) for a field holding a list
TruthyList(d, k) == k \in DOMAIN d /\ d[k] # <<>>

\* a local variable is a sequence: empty while unbound, <<v>> once assigned v
Unbound == <<>>

Bound(v) == <<v>>

\* sum(1 for x in xs if P(x))
CountIf(xs, P(_)) == Cardinality({n \in DOMAIN xs : P(xs[n])})

\* Counter.update with one key: increment its entry, or append a new entry
CounterAdd(c, k) ==
  IF \E n \in DOMAIN c : c[n].key = k
  THEN [n \in DOMAIN c |->
          IF c[n].key = k THEN [key |-> k, count |-> c[n].count + 1] ELSE c[n]]
  ELSE Append(c, [key |-> k, count |-> 1])

\* Counter(iterable of keys): entries in first-seen order
RECURSIVE CounterFrom(_, _)
CounterFrom(c, keys) ==
  IF keys = <<>> THEN c
  ELSE CounterFrom(CounterAdd(c, Head(keys)), Tail(keys))

\* Counter(keys)
Counter(keys) == CounterFrom(<<>>, keys)

\* counter[k] (0 for a missing key) and sum(counter.values())
CounterGet(c, k) ==
  IF \E n \in DOMAIN c : c[n].key = k
  THEN (CHOOSE e \in {c[n] : n \in DOMAIN c} : e.key = k).count
  ELSE 0

CounterKeys(c) == {c[n].key : n \in DOMAIN c}

RECURSIVE CounterSum(_)
CounterSum(c) == IF c = <<>> THEN 0 ELSE Head(c).count + CounterSum(Tail(c))

----------------------------------------------------------------------------
(* gerar_estatisticas *)

ItemAtivo(i) == Get(i, "status") = "0"

\* variant: every item that is not active counts as disabled
ItemDesabilitado_naoAtivo(i) == Get(i, "status") # "0"

ItemDesabilitado(i) == Get(i, "status") = "1"

TriggerAtiva(t) == Get(t, "status") = "0"

TriggerDesabilitada(t) == Get(t, "status") = "1"

\* variant: an unknown type code is its own bucket
ItemTipo_codigo(i) == GetOr(ITEM_TYPES, Get(i, "type"), Get(i, "type"))

ItemTipo(i) == GetOr(ITEM_TYPES, Get(i, "type"), "Desconhecido")

ItemValor(i) == GetOr(VALUE_TYPES, Get(i, "value_type"), "Desconhecido")

ItemComPreprocessing(i) == TruthyList(i, "preprocessing")

ComTags(x) == TruthyList(x, "tags")

TriggerPrioridade(t) == GetOr(t, "priority", "0")

por_tipo(itens) == Counter([n \in DOMAIN itens |-> ItemTipo(itens[n])])

por_valor(itens) == Counter([n \in DOMAIN itens |-> ItemValor(itens[n])])

\* variant: triggers without a priority field are skipped
por_prioridade_skip(triggers) ==
  Counter([n \in DOMAIN SelectSeq(triggers,
                                  LAMBDA t : "priority" \in DOMAIN t) |->
             SelectSeq(triggers, LAMBDA t : "priority" \in DOMAIN t)[n].priority])

\* variant: the table is keyed by priority label
por_prioridade_label(triggers) ==
  Counter([n \in DOMAIN triggers |->
             GetOr(TRIGGER_PRIORITIES, TriggerPrioridade(triggers[n]),
                   <<"Desconhecido", "#888">>)[1]])

por_prioridade(triggers) ==
  Counter([n \in DOMAIN triggers |-> TriggerPrioridade(triggers[n])])

TriggerComDependencias(t) == TruthyList(t, "dependencies")

gerar_estatisticas(itens, triggers) ==
  [itens |->
     [total |-> Len(itens),
      ativos |-> CountIf(itens, ItemAtivo),
      desabilitados |-> CountIf(itens, ItemDesabilitado),
      por_tipo |-> por_tipo(itens),
      por_valor |-> por_valor(itens),
      com_preprocessing |-> CountIf(itens, ItemComPreprocessing),
      com_tags |-> CountIf(itens, ComTags)],
   triggers |->
     [total |-> Len(triggers),
      ativas |-> CountIf(triggers, TriggerAtiva),
      desabilitadas |-> CountIf(triggers, TriggerDesabilitada),
      por_prioridade |-> por_prioridade(triggers),
      com_dependencias |-> CountIf(triggers, TriggerComDependencias),
      com_tags |-> CountIf(triggers, ComTags)]]

----------------------------------------------------------------------------
(* Inputs: command line and API responses *)

\* dicts with any subset of the string-valued keys of V, each key k holding
\* a value of V[k]
StrDicts(V) ==
  UNION {{d \in [D -> UNION {V[k] : k \in D}] : \A k \in D : d[k] \in V[k]} :
         D \in SUBSET DOMAIN V}

\* lists of at most n elements of S
SeqsUpTo(S, n) == UNION {[1..m -> S] : m \in 0..n}

Hostnames == {"web01", "db01"}

Formats == {"html", "json", "excel", "both", "all"}

Outputs == {None, "", "rel"}

Args == [hostname : Hostnames, url : {"http://localhost"}, format : Formats,
         output : Outputs]

HostDe(h) == [hostid |-> "10084", host |-> h, name |-> "Servidor"]

ItensExemplo ==
  <<[itemid |-> "1", name |-> "CPU", status |-> "0", type |-> "0",
     value_type |-> "0", tags |-> <<[tag |-> "env", value |-> "prod"]>>,
     preprocessing |-> <<[type |-> "10", params |-> ""]>>],
    [itemid |-> "2", name |-> "cpu", status |-> "1", type |-> "20",
     value_type |-> "3", tags |-> <<>>, preprocessing |-> <<>>]>>

TriggersExemplo ==
  <<[triggerid |-> "1", description |-> "Host down", status |-> "0",
     priority |-> "5", tags |-> <<[tag |-> "scope"]>>,
     dependencies |-> <<>>],
    [triggerid |-> "2", description |-> "High load", status |-> "0",
     priority |-> "3", tags |-> <<>>,
     dependencies |-> <<[triggerid |-> "1", description |-> "Host down"]>>],
    [triggerid |-> "3", description |-> "disk full", status |-> "1",
     priority |-> "3", tags |-> <<>>, dependencies |-> <<>>]>>

ItemUniverse ==
  StrDicts([status |-> {"0", "1", "3"}, type |-> {"0", "99"},
            value_type |-> {"3", "9"}])
  \cup {ItensExemplo[n] : n \in DOMAIN ItensExemplo}

TriggerUniverse ==
  StrDicts([status |-> {"0", "1", "2"}, priority |-> {"0", "3", "5", "9"}])
  \cup {TriggersExemplo[n] : n \in DOMAIN TriggersExemplo}

RespostasItens ==
  {<<>>, ItensExemplo, <<[itemid |-> "3", name |-> "x", type |-> "4"]>>}

RespostasTriggers ==
  {<<>>, TriggersExemplo, <<[triggerid |-> "4", description |-> "y"]>>}

RespostasProblemas ==
  {<<>>, <<[eventid |-> "9", clock |-> "1700000000", name |-> "Host down",
            severity |-> "5", acknowledged |-> "0"]>>}

RespostasEventos ==
  {<<>>, <<[eventid |-> "9", clock |-> "1700000000", name |-> "Host down"],
           [eventid |-> "8", clock |-> "1600000000", name |-> "Host down"]>>}

----------------------------------------------------------------------------
(* Python strings: str.lower(), comparison and int() *)

\* the characters of the strings that are sorted or parsed, by code point
Alphabet ==
  <<" ", "-", "0", "1", "2", "3", "4", "5", "6", "7", "8", "9",
    "A", "B", "C", "D", "E", "F", "G", "H", "I", "J", "K", "L", "M",
    "N", "O", "P", "Q", "R", "S", "T", "U", "V", "W", "X", "Y", "Z",
    "a", "b", "c", "d", "e", "f", "g", "h", "i", "j", "k", "l", "m",
    "n", "o", "p", "q", "r", "s", "t", "u", "v", "w", "x", "y", "z">>

Digitos == <<"0", "1", "2", "3", "4", "5", "6", "7", "8", "9">>

\* the characters of a string
Chars(s) ==
  CASE s = "" -> <<>>
       [] s = "CPU" -> <<"C", "P", "U">>
       [] s = "cpu" -> <<"c", "p", "u">>
       [] s = "x" -> <<"x">>
       [] s = "y" -> <<"y">>
       [] s = "a" -> <<"a">>
       [] s = "A" -> <<"A">>
       [] s = "B" -> <<"B">>
       [] s = "b" -> <<"b">>
       [] s = "ab" -> <<"a", "b">>
       [] s = "Host down" -> <<"H", "o", "s", "t", " ", "d", "o", "w", "n">>
       [] s = "High load" -> <<"H", "i", "g", "h", " ", "l", "o", "a", "d">>
       [] s = "disk full" -> <<"d", "i", "s", "k", " ", "f", "u", "l", "l">>
       [] s = "0" -> <<"0">>
       [] s = "3" -> <<"3">>
       [] s = "5" -> <<"5">>
       [] s = "9" -> <<"9">>
       [] s = "10" -> <<"1", "0">>
       [] s = "abc" -> <<"a", "b", "c">>
       [] s = "1000" -> <<"1", "0", "0", "0">>
       [] s = "1700000000" -> <<"1", "7", "0", "0", "0", "0", "0", "0", "0", "0">>
       [] s = "Servidor" -> <<"S", "e", "r", "v", "i", "d", "o", "r">>

\* position of a character in code point order
Ord(c) == CHOOSE n \in DOMAIN Alphabet : Alphabet[n] = c

\* str.lower() of one character: "A".."Z" are 26 places before "a".."z"
LowerChar(c) == IF Ord(c) \in 13..38 THEN Alphabet[Ord(c) + 26] ELSE c

\* s.lower(), as the code points of its characters
LowerOrds(s) == [n \in DOMAIN Chars(s) |-> Ord(LowerChar(Chars(s)[n]))]

\* a < b for two lists of integers (Python sequence comparison)
RECURSIVE LexLess(_, _)
LexLess(a, b) ==
  IF b = <<>> THEN FALSE
  ELSE IF a = <<>> THEN TRUE
  ELSE IF Head(a) # Head(b) THEN Head(a) < Head(b)
  ELSE LexLess(Tail(a), Tail(b))

IsDigit(c) == \E n \in DOMAIN Digitos : Digitos[n] = c

DigitVal(c) == (CHOOSE n \in DOMAIN Digitos : Digitos[n] = c) - 1

\* the digits of a literal without its sign
Unsigned(cs) == IF cs # <<>> /\ Head(cs) = "-" THEN Tail(cs) ELSE cs

\* int(s) succeeds: an optional sign and at least one digit
IsInt(s) ==
  /\ Unsigned(Chars(s)) # <<>>
  /\ \A n \in DOMAIN Unsigned(Chars(s)) : IsDigit(Unsigned(Chars(s))[n])

RECURSIVE NatOf(_)
NatOf(cs) ==
  IF cs = <<>> THEN 0
  ELSE NatOf(SubSeq(cs, 1, Len(cs) - 1)) * 10 + DigitVal(cs[Len(cs)])

\* int(s) for a string s that IsInt
IntOf(s) ==
  IF Chars(s) # <<>> /\ Head(Chars(s)) = "-"
  THEN 0 - NatOf(Unsigned(Chars(s)))
  ELSE NatOf(Chars(s))

----------------------------------------------------------------------------
(* sorted(xs, key=...) *)

\* variant: an element goes before the elements of equal key
RECURSIVE Insert_antes(_, _)
Insert_antes(ps, p) ==
  IF ps = <<>> THEN <<p>>
  ELSE IF ~LexLess(Head(ps).key, p.key) THEN <<p>> \o ps
  ELSE <<Head(ps)>> \o Insert_antes(Tail(ps), p)

\* insert pair p after every pair whose key is not greater: equal keys keep
\* their order of arrival
RECURSIVE Insert(_, _)
Insert(ps, p) ==
  IF ps = <<>> THEN <<p>>
  ELSE IF LexLess(p.key, Head(ps).key) THEN <<p>> \o ps
  ELSE <<Head(ps)>> \o Insert(Tail(ps), p)

RECURSIVE SortPairs(_)
SortPairs(ps) ==
  IF ps = <<>> THEN <<>>
  ELSE Insert(SortPairs(SubSeq(ps, 1, Len(ps) - 1)), ps[Len(ps)])

\* sorted(xs, key) with keys[n] the key of xs[n], a list of integers
Sorted(xs, keys) ==
  LET ps == SortPairs([m \in DOMAIN xs |-> [key |-> keys[m], val |-> xs[m]]])
  IN  [n \in DOMAIN xs |-> ps[n].val]

----------------------------------------------------------------------------
(* Derived values shared by gerar_html and gerar_excel *)

STATUS_MAP ==
  [c \in {"0", "1"} |->
     CASE c = "0" -> <<"Ativo", "#4CAF50">>
       [] c = "1" -> <<"Desabilitado", "#F44336">>]

\* bool(d.get(k)) for a field holding a string
TruthyStr(d, k) == k \in DOMAIN d /\ d[k] # "" /\ d[k] # None

\* variant: the name is compared as it is written
ItemSortKey_caixa(x) ==
  [n \in DOMAIN Chars(GetOr(x, "name", "")) |->
     Ord(Chars(GetOr(x, "name", ""))[n])]

\* key=lambda x: x.get("name", "").lower()
ItemSortKey(x) == LowerOrds(GetOr(x, "name", ""))

\* variant: the priority is compared by its first character
TriggerSortKey_texto(t) ==
  <<0 - Ord(Head(Chars(GetOr(t, "priority", "0"))))>>
  \o LowerOrds(GetOr(t, "description", ""))

\* key=lambda x: (-int(x.get("priority", "0")), x.get("description", "").lower())
TriggerSortKey(t) ==
  <<0 - IntOf(GetOr(t, "priority", "0"))>>
  \o LowerOrds(GetOr(t, "description", ""))

itens_sorted(itens) ==
  Sorted(itens, [n \in DOMAIN itens |-> ItemSortKey(itens[n])])

triggers_sorted(triggers) ==
  Sorted(triggers, [n \in DOMAIN triggers |-> TriggerSortKey(triggers[n])])

\* Counter.most_common(n): entries by count descending, equal counts in
\* insertion order, the first n of them
MostCommonAll(c) == Sorted(c, [m \in DOMAIN c |-> <<0 - c[m].count>>])

\* variant: the first n entries in insertion order
MostCommon_insertion(c, n) ==
  SubSeq(c, 1, IF Len(c) < n THEN Len(c) ELSE n)

MostCommon(c, n) ==
  SubSeq(MostCommonAll(c), 1, IF Len(c) < n THEN Len(c) ELSE n)

\* a quotient count / total * 100 as the fraction num / den
Percent(count, total) == [num |-> count * 100, den |-> total]

\* f"{count / total * 100:.1f}": the quotient rounded to tenths, a tie going
\* to the even tenth
Format1f(count, total) ==
  LET q == (count * 1000) \div total
      r == (count * 1000) % total
      t == IF 2 * r > total \/ (2 * r = total /\ q % 2 = 1) THEN q + 1 ELSE q
  IN  [inteiro |-> t \div 10, decimo |-> t % 10]

\* variant: the quotients and remainders are truncated toward zero
Duracao_truncada(duracao_seg) ==
  LET Quo(a, b) == IF a >= 0 THEN a \div b ELSE 0 - ((0 - a) \div b)
      Res(a, b) == a - b * Quo(a, b)
      dias == Quo(duracao_seg, 86400)
      horas == Quo(Res(duracao_seg, 86400), 3600)
      minutos == Quo(Res(duracao_seg, 3600), 60)
  IN  IF dias > 0
      THEN [forma |-> "dhm", dias |-> dias, horas |-> horas,
            minutos |-> minutos]
      ELSE IF horas > 0
      THEN [forma |-> "hm", horas |-> horas, minutos |-> minutos]
      ELSE [forma |-> "m", minutos |-> minutos]

\* the duration text of duracao_seg seconds
Duracao(duracao_seg) ==
  LET dias == duracao_seg \div 86400
      horas == (duracao_seg % 86400) \div 3600
      minutos == (duracao_seg % 3600) \div 60
  IN  IF dias > 0
      THEN [forma |-> "dhm", dias |-> dias, horas |-> horas,
            minutos |-> minutos]
      ELSE IF horas > 0
      THEN [forma |-> "hm", horas |-> horas, minutos |-> minutos]
      ELSE [forma |-> "m", minutos |-> minutos]

\* clock = int(problem.get("clock", 0))
Clock(problem) ==
  IF "clock" \in DOMAIN problem THEN IntOf(problem["clock"]) ELSE 0

\* inicio and duracao of a problem rendered at time now; the strftime text of
\* a timestamp is kept as the timestamp
Inicio(problem) ==
  IF Clock(problem) # 0 THEN [forma |-> "data", ts |-> Clock(problem)]
  ELSE [forma |-> "-"]

DuracaoDe(problem, now) ==
  IF Clock(problem) # 0 THEN Duracao(now - Clock(problem))
  ELSE [forma |-> "-"]

\* the ranking rows of the events: alert_counter.most_common(20)
TopN == 20

EventName(e) == GetOr(e, "name", "")

top_alerts(events) ==
  MostCommon(Counter([n \in DOMAIN events |-> EventName(events[n])]), TopN)

----------------------------------------------------------------------------
(* Exceptions raised by the renderers on record data *)

Erro(tipo) == [tipo |-> tipo, msg |-> <<"record data">>]

\* None.lower()
LowerErro(x, k) ==
  IF k \in DOMAIN x /\ x[k] = None THEN "AttributeError" ELSE ""

\* int(v) of a field
IntErro(x, k) ==
  IF k \notin DOMAIN x THEN ""
  ELSE IF x[k] = None THEN "TypeError"
  ELSE IF ~IsInt(x[k]) THEN "ValueError"
  ELSE ""

ItemSortErro(x) == LowerErro(x, "name")

TriggerSortErro(t) ==
  IF IntErro(t, "priority") # "" THEN IntErro(t, "priority")
  ELSE LowerErro(t, "description")

\* tag["tag"] of a tag without that key
TagsErro(x) ==
  IF "tags" \in DOMAIN x
     /\ \E n \in DOMAIN x["tags"] : "tag" \notin DOMAIN x["tags"][n]
  THEN "KeyError" ELSE ""

ProblemErro(p) == IntErro(p, "clock")

\* the first non-empty error of a list of errors
RECURSIVE FirstErro(_)
FirstErro(es) ==
  IF es = <<>> THEN ""
  ELSE IF Head(es) # "" THEN Head(es) ELSE FirstErro(Tail(es))

ErrosDe(xs, E(_)) == [n \in DOMAIN xs |-> E(xs[n])]

\* the exception gerar_html raises on these records, "" when it raises none:
\* both sorts, then the item, trigger and problem loops
gerar_html_erro(dados) ==
  FirstErro(ErrosDe(dados["itens"], ItemSortErro)
            \o ErrosDe(dados["triggers"], TriggerSortErro)
            \o ErrosDe(dados["itens"], TagsErro)
            \o ErrosDe(dados["triggers"], TagsErro)
            \o ErrosDe(dados["problems"], ProblemErro))

\* the same for gerar_excel: each sort is followed by its loop
gerar_excel_erro(dados) ==
  FirstErro(ErrosDe(dados["itens"], ItemSortErro)
            \o ErrosDe(dados["itens"], TagsErro)
            \o ErrosDe(dados["triggers"], TriggerSortErro)
            \o ErrosDe(dados["triggers"], TagsErro)
            \o ErrosDe(dados["problems"], ProblemErro))

----------------------------------------------------------------------------
(* gerar_html: the document, as its tables.  A row keeps in "de" the record *)
(* it renders and a problem row in "agora" the time read for it; a text     *)
(* built by concatenation is the list of its pieces.                        *)

RECURSIVE Concat(_)
Concat(ss) == IF ss = <<>> THEN <<>> ELSE Head(ss) \o Concat(Tail(ss))

HtmlTag(tag) ==
  <<"<span class=tag>", tag["tag"]>>
  \o (IF TruthyStr(tag, "value") THEN <<":", tag["value"]>> ELSE <<>>)
  \o <<"</span>">>

\* tags_html or "-"
HtmlTags(x) ==
  LET tags == GetOr(x, "tags", <<>>)
      tags_html == Concat([n \in DOMAIN tags |-> HtmlTag(tags[n])])
  IN  IF tags_html = <<>> THEN <<"-">> ELSE tags_html

HtmlStatusClass(x) ==
  IF Get(x, "status") = "0" THEN "status-active" ELSE "status-disabled"

HtmlStatusLabel(x) ==
  GetOr(STATUS_MAP, GetOr(x, "status", "0"), <<"Desconhecido", "#888">>)[1]

HtmlItemRow(item) ==
  [de |-> item,
   classe |-> HtmlStatusClass(item),
   status |-> HtmlStatusLabel(item),
   name |-> GetOr(item, "name", ""),
   key_ |-> GetOr(item, "key_", ""),
   tipo |-> GetOr(ITEM_TYPES, GetOr(item, "type", ""), "Desconhecido"),
   valor_tipo |->
     GetOr(VALUE_TYPES, GetOr(item, "value_type", ""), "Desconhecido"),
   delay |-> GetOr(item, "delay", "-"),
   history |-> GetOr(item, "history", "-"),
   tags |-> HtmlTags(item)]

\* trigger.get("comments", "") or "-"
Comments(t) == IF TruthyStr(t, "comments") THEN t["comments"] ELSE "-"

PriorityInfo(code) ==
  GetOr(TRIGGER_PRIORITIES, code, <<"Desconhecido", "#888">>)

HtmlTriggerRow(trigger) ==
  [de |-> trigger,
   classe |-> HtmlStatusClass(trigger),
   status |-> HtmlStatusLabel(trigger),
   priority_info |-> PriorityInfo(GetOr(trigger, "priority", "0")),
   description |-> GetOr(trigger, "description", ""),
   expression |-> GetOr(trigger, "expression", ""),
   comments |-> Comments(trigger),
   tags |-> HtmlTags(trigger)]

Ack(problem) == IF Get(problem, "acknowledged") = "1" THEN "Sim" ELSE "Nao"

HtmlProblemRow(problem, now) ==
  [de |-> problem,
   agora |-> now,
   severity_info |-> PriorityInfo(GetOr(problem, "severity", "0")),
   name |-> GetOr(problem, "name", ""),
   inicio |-> Inicio(problem),
   duracao |-> DuracaoDe(problem, now),
   ack |-> Ack(problem)]

NenhumAlerta == "Nenhum alerta ativo no momento"

\* variant: no row without problems
HtmlProblemRows_vazio(problems, nows) ==
  [n \in DOMAIN problems |-> HtmlProblemRow(problems[n], nows[n])]

\* the rows of the active-problems table; nows[n] is the time read for the
\* n-th problem
HtmlProblemRows(problems, nows) ==
  IF problems # <<>>
  THEN [n \in DOMAIN problems |-> HtmlProblemRow(problems[n], nows[n])]
  ELSE <<[colspan |-> 5, texto |-> NenhumAlerta]>>

HtmlTopRow(entry, pos, total_events) ==
  [pos |-> pos, name |-> entry.key, count |-> entry.count,
   percentual |-> Percent(entry.count, total_events),
   texto |-> Format1f(entry.count, total_events)]

\* the frequency section: absent (Unbound) without events
HtmlTop(events) ==
  IF events # <<>>
  THEN LET top == top_alerts(events)
       IN  Bound([n \in DOMAIN top |-> HtmlTopRow(top[n], n, Len(events))])
  ELSE Unbound

RECURSIVE MaxCount(_)
MaxCount(c) ==
  IF c = <<>> THEN 0
  ELSE IF Head(c).count > MaxCount(Tail(c)) THEN Head(c).count
  ELSE MaxCount(Tail(c))

Bar(entry, max) ==
  [label |-> entry.key, count |-> entry.count,
   percentage |-> Percent(entry.count, max)]

\* "Itens por Tipo de Coleta": the 8 most common types, widths relative to
\* the largest of them
HtmlBarsTipo(por_tipo_) ==
  LET top_tipos == MostCommon(por_tipo_, 8)
      max_tipo == IF top_tipos # <<>> THEN MaxCount(top_tipos) ELSE 1
  IN  [n \in DOMAIN top_tipos |-> Bar(top_tipos[n], max_tipo)]

\* variant: widths relative to the number of items
HtmlBarsValor_total(por_valor_) ==
  LET max_valor == IF por_valor_ # <<>> THEN CounterSum(por_valor_) ELSE 1
      todos == MostCommonAll(por_valor_)
  IN  [n \in DOMAIN todos |-> Bar(todos[n], max_valor)]

\* "Itens por Tipo de Valor": every value type, widths relative to the largest
HtmlBarsValor(por_valor_) ==
  LET max_valor == IF por_valor_ # <<>> THEN MaxCount(por_valor_) ELSE 1
      todos == MostCommonAll(por_valor_)
  IN  [n \in DOMAIN todos |-> Bar(todos[n], max_valor)]

\* "Triggers por Severidade": one row per priority 5..0
HtmlPrioridades(por_prioridade_) ==
  [n \in 1..6 |->
     [name |-> PriorityInfo(<<"5", "4", "3", "2", "1", "0">>[n])[1],
      count |-> CounterGet(por_prioridade_, <<"5", "4", "3", "2", "1", "0">>[n])]]

HtmlDoc(dados, estat, nows) ==
  [host |-> dados["host"],
   prioridades |-> HtmlPrioridades(estat.triggers.por_prioridade),
   bars_tipo |-> HtmlBarsTipo(estat.itens.por_tipo),
   bars_valor |-> HtmlBarsValor(estat.itens.por_valor),
   itens |-> LET sorted == itens_sorted(dados["itens"])
             IN  [n \in DOMAIN sorted |-> HtmlItemRow(sorted[n])],
   triggers |-> LET sorted == triggers_sorted(dados["triggers"])
                IN  [n \in DOMAIN sorted |-> HtmlTriggerRow(sorted[n])],
   problems |-> HtmlProblemRows(dados["problems"], nows),
   top |-> HtmlTop(dados["events"])]

----------------------------------------------------------------------------
(* gerar_excel: the workbook, as its sheets *)

ExcelTag(tag) ==
  IF TruthyStr(tag, "value") THEN <<tag["tag"], ":", tag["value"]>>
  ELSE <<tag["tag"]>>

\* ", ".join(pieces)
RECURSIVE Join(_)
Join(ss) ==
  IF ss = <<>> THEN <<>>
  ELSE IF Len(ss) = 1 THEN Head(ss)
  ELSE Head(ss) \o <<", ">> \o Join(Tail(ss))

\* tags or "-"
ExcelTags(x) ==
  LET tags == GetOr(x, "tags", <<>>)
      joined == Join([n \in DOMAIN tags |-> ExcelTag(tags[n])])
  IN  IF joined = <<>> THEN <<"-">> ELSE joined

ExcelStatus(x) == IF Get(x, "status") = "0" THEN "Ativo" ELSE "Desabilitado"

ExcelItemRow(item) ==
  [de |-> item,
   status |-> ExcelStatus(item),
   name |-> GetOr(item, "name", ""),
   key_ |-> GetOr(item, "key_", ""),
   tipo |-> GetOr(ITEM_TYPES, GetOr(item, "type", ""), "Desconhecido"),
   valor_tipo |->
     GetOr(VALUE_TYPES, GetOr(item, "value_type", ""), "Desconhecido"),
   delay |-> GetOr(item, "delay", "-"),
   history |-> GetOr(item, "history", "-"),
   tags |-> ExcelTags(item),
   fill |-> IF ExcelStatus(item) = "Ativo" THEN "C8E6C9" ELSE "FFCDD2"]

ExcelTriggerRow(trigger) ==
  [de |-> trigger,
   status |-> ExcelStatus(trigger),
   priority_name |-> PriorityInfo(GetOr(trigger, "priority", "0"))[1],
   description |-> GetOr(trigger, "description", ""),
   expression |-> GetOr(trigger, "expression", ""),
   comments |-> Comments(trigger),
   tags |-> ExcelTags(trigger)]

ExcelProblemRow(problem, now) ==
  [de |-> problem,
   agora |-> now,
   severity_name |-> PriorityInfo(GetOr(problem, "severity", "0"))[1],
   name |-> GetOr(problem, "name", ""),
   inicio |-> Inicio(problem),
   duracao |-> DuracaoDe(problem, now),
   ack |-> Ack(problem)]

\* variant: the rows are written from the last problem to the first
ExcelAlertas_inverso(problems, nows) ==
  IF problems # <<>>
  THEN [rows |-> [n \in DOMAIN problems |->
                    ExcelProblemRow(problems[Len(problems) + 1 - n], nows[n])],
        cells |-> EmptyDict, merged |-> {}]
  ELSE [rows |-> <<>>, cells |-> [A2 |-> NenhumAlerta], merged |-> {"A2:E2"}]

\* the sheet "Alertas Ativos" below its header row: one row per problem, or
\* the notice in A2 with A2:E2 merged
ExcelAlertas(problems, nows) ==
  IF problems # <<>>
  THEN [rows |-> [n \in DOMAIN problems |->
                    ExcelProblemRow(problems[n], nows[n])],
        cells |-> EmptyDict, merged |-> {}]
  ELSE [rows |-> <<>>, cells |-> [A2 |-> NenhumAlerta], merged |-> {"A2:E2"}]

\* variant: the position is the row of the sheet
ExcelTopRow_linha(entry, row_idx, total_events) ==
  [pos |-> row_idx, name |-> entry.key, count |-> entry.count,
   texto |-> Format1f(entry.count, total_events)]

ExcelTopRow(entry, row_idx, total_events) ==
  [pos |-> row_idx - 1, name |-> entry.key, count |-> entry.count,
   texto |-> Format1f(entry.count, total_events)]

\* the sheet "Top 20 Alertas": not created (Unbound) without events
ExcelTop(events) ==
  IF events # <<>>
  THEN LET top == top_alerts(events)
       IN  Bound([n \in DOMAIN top |->
                    ExcelTopRow(top[n], n + 1, Len(events))])
  ELSE Unbound

ExcelDoc(dados, estat, nows) ==
  [host |-> dados["host"],
   resumo |-> [itens |-> estat.itens.total, triggers |-> estat.triggers.total],
   itens |-> LET sorted == itens_sorted(dados["itens"])
             IN  [n \in DOMAIN sorted |-> ExcelItemRow(sorted[n])],
   triggers |-> LET sorted == triggers_sorted(dados["triggers"])
                IN  [n \in DOMAIN sorted |-> ExcelTriggerRow(sorted[n])],
   alertas |-> ExcelAlertas(dados["problems"], nows),
   top |-> ExcelTop(dados["events"])]

----------------------------------------------------------------------------
(* salvar_json: json.dump, and json.load of what it wrote *)

\* The document is the sequence of its JSON tokens; the text of a string
\* token is kept as the string.  The record data holds strings, null, lists
\* and objects: the API returns every number as a string.
Tok(t) == [t |-> t]

TokStr(s) == [t |-> "str", v |-> s]

RECURSIVE SetToSeq(_)
SetToSeq(S) ==
  IF S = {} THEN <<>>
  ELSE LET x == CHOOSE y \in S : TRUE IN <<x>> \o SetToSeq(S \ {x})

\* the keys of a dict in the order in which it is iterated
KeysOf(d) == SetToSeq(DOMAIN d)

\* the token lists parts[1], ..., parts[n] with a comma between them
RECURSIVE Separados(_)
Separados(parts) ==
  IF parts = <<>> THEN <<>>
  ELSE IF Len(parts) = 1 THEN parts[1]
  ELSE parts[1] \o <<Tok(",")>> \o Separados(Tail(parts))

DumpObject(keys, values) ==
  <<Tok("{")>>
  \o Separados([n \in DOMAIN keys |->
                  <<TokStr(keys[n]), Tok(":")>> \o values[n]])
  \o <<Tok("}")>>

DumpArray(values) == <<Tok("[")>> \o Separados(values) \o <<Tok("]")>>

\* a string, or None as null
DumpStr(v) == IF v = None THEN <<Tok("null")>> ELSE <<TokStr(v)>>

\* a dict of strings: export_info, host, a tag, a preprocessing step, a
\* dependency
DumpFlat(d) ==
  LET keys == KeysOf(d)
  IN  DumpObject(keys, [n \in DOMAIN keys |-> DumpStr(d[keys[n]])])

DumpFlatList(xs) == DumpArray([n \in DOMAIN xs |-> DumpFlat(xs[n])])

\* the fields of an item or trigger that hold a list of dicts
ListFields == {"tags", "preprocessing", "dependencies"}

\* variant: a field holding an empty list is left out
DumpRecord_semVazios(r) ==
  LET keys == SelectSeq(KeysOf(r),
                        LAMBDA k : ~(k \in ListFields /\ r[k] = <<>>))
  IN  DumpObject(keys,
                 [n \in DOMAIN keys |->
                    IF keys[n] \in ListFields THEN DumpFlatList(r[keys[n]])
                    ELSE DumpStr(r[keys[n]])])

\* an item, trigger, problem or event
DumpRecord(r) ==
  LET keys == KeysOf(r)
  IN  DumpObject(keys,
                 [n \in DOMAIN keys |->
                    IF keys[n] \in ListFields THEN DumpFlatList(r[keys[n]])
                    ELSE DumpStr(r[keys[n]])])

DumpRecords(xs) == DumpArray([n \in DOMAIN xs |-> DumpRecord(xs[n])])

\* json.dump(dados, f, indent=4, ensure_ascii=False)
json_dump(dados) ==
  LET keys == KeysOf(dados)
  IN  DumpObject(keys,
                 [n \in DOMAIN keys |->
                    IF keys[n] \in {"export_info", "host"}
                    THEN DumpFlat(dados[keys[n]])
                    ELSE DumpRecords(dados[keys[n]])])

\* json.load: the value that starts at token i of ts, and the index of the
\* token after it
RECURSIVE ParseValue(_, _)
RECURSIVE ParseMembers(_, _)
RECURSIVE ParseItems(_, _)
ParseValue(ts, i) ==
  CASE ts[i].t = "str" -> [val |-> ts[i].v, next |-> i + 1]
    [] ts[i].t = "null" -> [val |-> None, next |-> i + 1]
    [] ts[i].t = "{" ->
         IF ts[i + 1].t = "}" THEN [val |-> EmptyDict, next |-> i + 2]
         ELSE ParseMembers(ts, i + 1)
    [] ts[i].t = "[" ->
         IF ts[i + 1].t = "]" THEN [val |-> <<>>, next |-> i + 2]
         ELSE ParseItems(ts, i + 1)

\* the members of an object from token i to its closing brace; of two
\* members with one name the later one is kept
ParseMembers(ts, i) ==
  LET v == ParseValue(ts, i + 2)
  IN  IF ts[v.next].t = ","
      THEN LET r == ParseMembers(ts, v.next + 1)
           IN  [val |-> r.val @@ (ts[i].v :> v.val), next |-> r.next]
      ELSE [val |-> (ts[i].v :> v.val), next |-> v.next + 1]

ParseItems(ts, i) ==
  LET v == ParseValue(ts, i)
  IN  IF ts[v.next].t = ","
      THEN LET r == ParseItems(ts, v.next + 1)
           IN  [val |-> <<v.val>> \o r.val, next |-> r.next]
      ELSE [val |-> <<v.val>>, next |-> v.next + 1]

json_load(ts) == ParseValue(ts, 1).val

----------------------------------------------------------------------------
(* State of one run of main() *)

NoError == [tipo |-> "", msg |-> <<>>]

\* an exception raised by the pyzabbix client or by the file system
ApiError == [tipo |-> "ZabbixAPIException", msg |-> <<"API error">>]

IoError == [tipo |-> "OSError", msg |-> <<"I/O error">>]

Init ==
  /\ pc = "inicio"
  /\ args \in Args
  /\ hosts = Unbound
  /\ export_data = EmptyDict
  /\ stats = EmptyDict
  /\ files = EmptyDict
  /\ calls = <<>>
  /\ erro = NoError

\* a call of function op that returned
Called(op) == calls' = Append(calls, [op |-> op, ok |-> TRUE])

\* a call of function op that raised e: nothing in main() catches it
Raised(op, e) ==
  /\ calls' = Append(calls, [op |-> op, ok |-> FALSE])
  /\ pc' = "falha"
  /\ erro' = e

\* export_data[k] = v
SetItem(d, k, v) == (k :> v) @@ d

----------------------------------------------------------------------------
(* Data Fetcher *)

conectar_zabbix ==
  /\ pc = "inicio"
  /\ \/ /\ Called("conectar_zabbix")
        /\ pc' = "conectado"
        /\ UNCHANGED erro
     \/ Raised("conectar_zabbix", ApiError)
  /\ UNCHANGED <<args, hosts, export_data, stats, files>>

\* variant: the message does not name the requested host
HostNaoEncontrado_generico(hostname) ==
  [tipo |-> "ValueError", msg |-> <<"Host nao encontrado!">>]

HostNaoEncontrado(hostname) ==
  [tipo |-> "ValueError", msg |-> <<"Host '", hostname, "' nao encontrado!">>]

obter_host_id ==
  /\ pc = "conectado"
  /\ \/ \E resp \in {<<>>, <<HostDe(args.hostname)>>} :
          /\ hosts' = Bound(resp)
          /\ IF resp = <<>>
             THEN Raised("obter_host_id", HostNaoEncontrado(args.hostname))
             ELSE /\ Called("obter_host_id")
                  /\ pc' = "host"
                  /\ UNCHANGED erro
     \/ /\ Raised("obter_host_id", ApiError)
        /\ UNCHANGED hosts
  /\ UNCHANGED <<args, export_data, stats, files>>

\* main(), lines 1318-1329: export_data = {"export_info": ..., "host": ...}
main_export_data ==
  /\ pc = "host"
  /\ \/ /\ export_data' =
             [export_info |-> [data_exportacao |-> "now",
                               zabbix_url |-> args.url,
                               zabbix_version |-> "7.0"],
              host |-> [hostid |-> hosts[1][1].hostid,
                        host |-> hosts[1][1].host,
                        name |-> hosts[1][1].name]]
        /\ pc' = "export_data"
        /\ UNCHANGED erro
     \/ /\ pc' = "falha"
        /\ erro' = ApiError
        /\ UNCHANGED export_data
  /\ UNCHANGED <<args, hosts, stats, files, calls>>

\* one exportar_* call of main(): export_data[key] = op(zapi, hostid)
Exportar(op, de, para, key, Respostas) ==
  /\ pc = de
  /\ \/ \E resp \in Respostas :
          /\ export_data' = SetItem(export_data, key, resp)
          /\ Called(op)
          /\ pc' = para
          /\ UNCHANGED erro
     \/ /\ Raised(op, ApiError)
        /\ UNCHANGED export_data
  /\ UNCHANGED <<args, hosts, stats, files>>

exportar_itens ==
  Exportar("exportar_itens", "export_data", "itens", "itens", RespostasItens)

\* variant: a failed trigger query is swallowed and the run goes on with []
exportar_triggers_swallow ==
  /\ pc = "itens"
  /\ \/ \E resp \in RespostasTriggers :
          /\ export_data' = SetItem(export_data, "triggers", resp)
          /\ Called("exportar_triggers")
     \/ /\ export_data' = SetItem(export_data, "triggers", <<>>)
        /\ calls' = Append(calls, [op |-> "exportar_triggers", ok |-> FALSE])
  /\ pc' = "triggers"
  /\ UNCHANGED <<args, hosts, stats, files, erro>>

exportar_triggers ==
  Exportar("exportar_triggers", "itens", "triggers", "triggers",
           RespostasTriggers)

exportar_problemas ==
  Exportar("exportar_problemas", "triggers", "problems", "problems",
           RespostasProblemas)

\* variant: when the event query fails, what was fetched so far is dumped
exportar_eventos_dump ==
  /\ pc = "problems"
  /\ \/ \E resp \in RespostasEventos :
          /\ export_data' = SetItem(export_data, "events", resp)
          /\ Called("exportar_eventos")
          /\ pc' = "events"
          /\ UNCHANGED <<erro, files>>
     \/ /\ Raised("exportar_eventos", ApiError)
        /\ files' = SetItem(files, <<args.hostname, "_parcial.json">>,
                            [estado |-> "completo", conteudo |-> export_data])
        /\ UNCHANGED export_data
  /\ UNCHANGED <<args, hosts, stats>>

exportar_eventos ==
  Exportar("exportar_eventos", "problems", "events", "events",
           RespostasEventos)

----------------------------------------------------------------------------
(* Orchestrator: aggregate and render *)

main_gerar_estatisticas ==
  /\ pc = "events"
  /\ stats' = gerar_estatisticas(export_data["itens"], export_data["triggers"])
  /\ Called("gerar_estatisticas")
  /\ pc' = "estatisticas"
  /\ UNCHANGED <<args, hosts, export_data, files, erro>>

\* args.output or f"{args.hostname}_relatorio"
OutputBase(a) ==
  IF a.output \in {None, ""} THEN <<a.hostname, "_relatorio">>
  ELSE <<a.output>>

\* f"{output_base}{ext}"
Filename(a, ext) == Append(OutputBase(a), ext)

FormatosJson == {"json", "both", "all"}

\* variant: "both" is left out of the html condition
FormatosHtml_semBoth == {"html", "all"}

FormatosHtml == {"html", "both", "all"}

FormatosExcel == {"excel", "all"}

\* the times datetime.now() can return during a render, in seconds
Nows == {900, 1000, 4600, 91000}

\* the times read for n problems, one after the other
NowSeqs(n) == {ns \in [1..n -> Nows] : \A m \in 1..(n - 1) : ns[m] <= ns[m + 1]}

\* a renderer writing conteudo to file fn: the file is written whole, or
\* opening it fails and nothing is written, or writing fails and leaves a
\* partial file
Escrever(op, fn, para, conteudo) ==
  \/ /\ files' = SetItem(files, fn,
                         [estado |-> "completo", conteudo |-> conteudo])
     /\ Called(op)
     /\ pc' = para
     /\ UNCHANGED erro
  \/ /\ UNCHANGED files
     /\ Raised(op, IoError)
  \/ /\ files' = SetItem(files, fn, [estado |-> "parcial"])
     /\ Raised(op, IoError)

\* the functions called after the fetches read dados and estat and assign to
\* nothing in them
salvar_json(dados, fn, para) ==
  /\ Escrever("salvar_json", fn, para, json_dump(dados))
  /\ UNCHANGED <<export_data, stats>>

\* variant: a failed html render removes what the run wrote before it
gerar_html_rollback(dados, estat, fn, para) ==
  \/ /\ gerar_html_erro(dados) = ""
     /\ \E nows \in NowSeqs(Len(dados["problems"])) :
          files' = SetItem(files, fn,
                           [estado |-> "completo",
                            conteudo |-> HtmlDoc(dados, estat, nows)])
     /\ Called("gerar_html")
     /\ pc' = para
     /\ UNCHANGED <<erro, export_data, stats>>
  \/ /\ files' = EmptyDict
     /\ Raised("gerar_html", IoError)
     /\ UNCHANGED <<export_data, stats>>

\* the document is built in memory, then written: an exception on the record
\* data leaves no file
gerar_html(dados, estat, fn, para) ==
  /\ IF gerar_html_erro(dados) # ""
     THEN /\ Raised("gerar_html", Erro(gerar_html_erro(dados)))
          /\ UNCHANGED files
     ELSE \E nows \in NowSeqs(Len(dados["problems"])) :
            Escrever("gerar_html", fn, para, HtmlDoc(dados, estat, nows))
  /\ UNCHANGED <<export_data, stats>>

\* variant: the status label is stored in the item it was derived from
gerar_excel_rotulos(dados, estat, fn, para) ==
  /\ IF gerar_excel_erro(dados) # ""
     THEN /\ Raised("gerar_excel", Erro(gerar_excel_erro(dados)))
          /\ UNCHANGED files
     ELSE \E nows \in NowSeqs(Len(dados["problems"])) :
            Escrever("gerar_excel", fn, para, ExcelDoc(dados, estat, nows))
  /\ export_data' =
       SetItem(export_data, "itens",
               [n \in DOMAIN dados["itens"] |->
                  SetItem(dados["itens"][n], "status",
                          ExcelStatus(dados["itens"][n]))])
  /\ UNCHANGED stats

\* the workbook is built in memory, then saved by wb.save
gerar_excel(dados, estat, fn, para) ==
  /\ IF gerar_excel_erro(dados) # ""
     THEN /\ Raised("gerar_excel", Erro(gerar_excel_erro(dados)))
          /\ UNCHANGED files
     ELSE \E nows \in NowSeqs(Len(dados["problems"])) :
            Escrever("gerar_excel", fn, para, ExcelDoc(dados, estat, nows))
  /\ UNCHANGED <<export_data, stats>>

main_salvar_json ==
  /\ pc = "estatisticas"
  /\ IF args.format \in FormatosJson
     THEN salvar_json(export_data, Filename(args, ".json"), "json")
     ELSE /\ pc' = "json"
          /\ UNCHANGED <<files, calls, erro, export_data, stats>>
  /\ UNCHANGED <<args, hosts>>

main_gerar_html ==
  /\ pc = "json"
  /\ IF args.format \in FormatosHtml
     THEN gerar_html(export_data, stats, Filename(args, ".html"), "html")
     ELSE /\ pc' = "html"
          /\ UNCHANGED <<files, calls, erro, export_data, stats>>
  /\ UNCHANGED <<args, hosts>>

main_gerar_excel ==
  /\ pc = "html"
  /\ IF args.format \in FormatosExcel
     THEN gerar_excel(export_data, stats, Filename(args, ".xlsx"), "excel")
     ELSE /\ pc' = "excel"
          /\ UNCHANGED <<files, calls, erro, export_data, stats>>
  /\ UNCHANGED <<args, hosts>>

\* main(), lines 1359-1377: the printed summary
main_resumo ==
  /\ pc = "excel"
  /\ pc' = "fim"
  /\ UNCHANGED <<args, hosts, export_data, stats, files, calls, erro>>

\* inputs of gerar_estatisticas: every list of at most MaxItens items with a
\* few triggers, and every list of at most MaxTriggers triggers with a few items
EntradasEstatisticas ==
  (SeqsUpTo(ItemUniverse, MaxItens) \X {<<>>, TriggersExemplo})
  \cup ({<<>>, ItensExemplo} \X SeqsUpTo(TriggerUniverse, MaxTriggers))

\* main() at line 1343, the four fetches done
InitEstatisticas ==
  /\ pc = "events"
  /\ args = [hostname |-> "web01", url |-> "http://localhost",
             format |-> "both", output |-> None]
  /\ hosts = Bound(<<HostDe("web01")>>)
  /\ \E e \in EntradasEstatisticas :
       export_data =
         [export_info |-> [data_exportacao |-> "now",
                           zabbix_url |-> "http://localhost",
                           zabbix_version |-> "7.0"],
          host |-> HostDe("web01"),
          itens |-> e[1], triggers |-> e[2], problems |-> <<>>,
          events |-> <<>>]
  /\ stats = EmptyDict
  /\ files = EmptyDict
  /\ calls = [n \in 1..6 |->
               [op |-> <<"conectar_zabbix", "obter_host_id", "exportar_itens",
                         "exportar_triggers", "exportar_problemas",
                         "exportar_eventos">>[n],
                ok |-> TRUE]]
  /\ erro = NoError

NextEstatisticas == main_gerar_estatisticas

SpecEstatisticas == InitEstatisticas /\ [][NextEstatisticas]_vars

----------------------------------------------------------------------------
(* Inputs of the renderers *)

\* items: names differing in case, an absent and a null name, known, unknown
\* and absent status, type and value type, tags with and without a value, a
\* tag entry without its "tag" key
ItensRender ==
  {[name |-> n, status |-> "0"] : n \in {"a", "A", "B"}}
  \cup {[status |-> "0"], [name |-> None, status |-> "0"],
        [name |-> "a"],
        [name |-> "a", status |-> "1", type |-> "0", value_type |-> "3"],
        [name |-> "a", status |-> "3", type |-> "20", value_type |-> "9"],
        [name |-> "b", status |-> "0",
         tags |-> <<[tag |-> "env", value |-> "prod"], [tag |-> "os"]>>],
        [name |-> "b", status |-> "0", tags |-> <<[value |-> "prod"]>>]}

\* triggers: priorities "5" and "10" and an absent priority with descriptions
\* differing in case, a priority that is no number, known, unknown and absent
\* status, a null description
TriggersRender ==
  {[description |-> "a"], [priority |-> "5"],
   [priority |-> "5", description |-> "a"],
   [priority |-> "5", description |-> "A"],
   [priority |-> "5", description |-> "B"],
   [priority |-> "10", description |-> "a"],
   [priority |-> "10", description |-> "B"],
   [priority |-> "abc", description |-> "a"],
   [priority |-> "3", description |-> "a", status |-> "1"],
   [priority |-> "3", description |-> "b", status |-> "3"],
   [priority |-> "3", description |-> None],
   [priority |-> "3", tags |-> <<[value |-> "prod"]>>]}

\* problems: a start time, the start time "0", none, one that is no number
ProblemasRender ==
  {[clock |-> "1000", name |-> "Host down", severity |-> "5",
    acknowledged |-> "1"],
   [clock |-> "0", name |-> "High load", severity |-> "3"],
   [name |-> "disk full", severity |-> "9", acknowledged |-> "0"],
   [clock |-> "abc", name |-> "x"]}

\* events: every list of at most MaxEventos events named "A", "B" or "C", a
\* list with unnamed events, and lists with more than TopN distinct names
EventosNomeados ==
  SeqsUpTo({[name |-> n] : n \in {"A", "B", "C"}}, MaxEventos)

EventosDistintos == [n \in 1..(TopN + 2) |-> [name |-> ToString(n)]]

EventosLongos ==
  {EventosDistintos \o cauda :
     cauda \in SeqsUpTo({[name |-> "1"], [name |-> ToString(TopN + 1)],
                         [name |-> ToString(TopN + 2)]}, 2)}

EventosRender ==
  EventosNomeados
  \cup {<<[eventid |-> "7"], [name |-> "A"], [eventid |-> "8"]>>}
  \cup EventosLongos

\* the records rendered: one of the four lists is drawn from its universe
EntradasRender ==
  {[itens |-> i, triggers |-> <<>>, problems |-> <<>>, events |-> <<>>] :
     i \in SeqsUpTo(ItensRender, MaxLinhas)}
  \cup {[itens |-> <<>>, triggers |-> t, problems |-> <<>>, events |-> <<>>] :
          t \in SeqsUpTo(TriggersRender, MaxLinhas)}
  \cup {[itens |-> <<>>, triggers |-> <<>>, problems |-> q, events |-> <<>>] :
          q \in SeqsUpTo(ProblemasRender, MaxProblemas)}
  \cup {[itens |-> <<>>, triggers |-> <<>>, problems |-> <<>>, events |-> e] :
          e \in EventosRender}

\* main() at line 1353 of a run with --format all: the statistics computed
\* and the .json file written
InitRender ==
  /\ pc = "json"
  /\ args = [hostname |-> "web01", url |-> "http://localhost",
             format |-> "all", output |-> None]
  /\ hosts = Bound(<<HostDe("web01")>>)
  /\ \E e \in EntradasRender :
       /\ export_data =
            [export_info |-> [data_exportacao |-> "now",
                              zabbix_url |-> "http://localhost",
                              zabbix_version |-> "7.0"],
             host |-> HostDe("web01"),
             itens |-> e.itens, triggers |-> e.triggers,
             problems |-> e.problems, events |-> e.events]
       /\ stats = gerar_estatisticas(e.itens, e.triggers)
  /\ files = [fn \in {<<"web01", "_relatorio", ".json">>} |->
                [estado |-> "completo", conteudo |-> json_dump(export_data)]]
  /\ calls = [n \in 1..8 |->
               [op |-> <<"conectar_zabbix", "obter_host_id", "exportar_itens",
                         "exportar_triggers", "exportar_problemas",
                         "exportar_eventos", "gerar_estatisticas",
                         "salvar_json">>[n],
                ok |-> TRUE]]
  /\ erro = NoError

NextRender == main_gerar_html \/ main_gerar_excel

SpecRender == InitRender /\ [][NextRender]_vars

Next ==
  \/ conectar_zabbix
  \/ obter_host_id
  \/ main_export_data
  \/ exportar_itens
  \/ exportar_triggers
  \/ exportar_problemas
  \/ exportar_eventos
  \/ main_gerar_estatisticas
  \/ main_salvar_json
  \/ main_gerar_html
  \/ main_gerar_excel
  \/ main_resumo

Spec == Init /\ [][Next]_vars

----------------------------------------------------------------------------
(* Properties of a run of main() *)

Ops == [n \in DOMAIN calls |-> calls[n].op]

WasCalled(op) == \E n \in DOMAIN calls : calls[n].op = op

CallFailed(op) == \E n \in DOMAIN calls : calls[n].op = op /\ ~calls[n].ok

FetchOps ==
  {"conectar_zabbix", "obter_host_id", "exportar_itens", "exportar_triggers",
   "exportar_problemas", "exportar_eventos"}

QueryOps ==
  {"exportar_itens", "exportar_triggers", "exportar_problemas",
   "exportar_eventos"}

\* the run ended with an exception before the fetch phase was over
FetchFailed == pc = "falha" /\ ~WasCalled("gerar_estatisticas")

\* C1: when the fetch phase of main() fails at any step, the run has
\* written no output artifact, whole or partial.
C1_NoArtifactOnFetchFailure ==
  ((\E op \in FetchOps : CallFailed(op)) \/ FetchFailed) => DOMAIN files = {}

C1_Witness ==
  /\ CallFailed("exportar_eventos")
  /\ "problems" \in DOMAIN export_data
  /\ pc = "falha"

\* the order of the steps of main() for a value of --format
Ordem(format) ==
  <<"conectar_zabbix", "obter_host_id", "exportar_itens", "exportar_triggers",
    "exportar_problemas", "exportar_eventos", "gerar_estatisticas">>
  \o (IF format \in {"json", "both", "all"} THEN <<"salvar_json">> ELSE <<>>)
  \o (IF format \in {"html", "both", "all"} THEN <<"gerar_html">> ELSE <<>>)
  \o (IF format \in {"excel", "all"} THEN <<"gerar_excel">> ELSE <<>>)

\* C2: the steps of a run are a prefix of the fixed order connect, resolve
\* host, items, triggers, problems, events, statistics, requested renderers:
\* each happens at most once, none is retried, and a step starts only when
\* every step before it has completed successfully.
C2_FixedOrder ==
  /\ Len(calls) <= Len(Ordem(args.format))
  /\ Ops = SubSeq(Ordem(args.format), 1, Len(calls))
  /\ \A n \in DOMAIN calls : n < Len(calls) => calls[n].ok
  /\ (pc = "fim") => /\ Ops = Ordem(args.format)
                     /\ \A n \in DOMAIN calls : calls[n].ok

C2_Witness ==
  /\ pc = "fim"
  /\ args.format = "all"
  /\ Len(calls) = 10

\* the artifacts of a complete run for a value of --format
Extensoes(format) ==
  CASE format = "json" -> {".json"}
    [] format = "html" -> {".html"}
    [] format = "excel" -> {".xlsx"}
    [] format = "both" -> {".json", ".html"}
    [] format = "all" -> {".json", ".html", ".xlsx"}

\* C3: a run that completes has written exactly the artifacts of its
\* --format value: json -> .json; html -> .html; excel -> .xlsx;
\* both -> .json and .html; all -> the three; each one whole.
C3_ArtifactsByFormat ==
  (pc = "fim") =>
    /\ DOMAIN files = {Filename(args, e) : e \in Extensoes(args.format)}
    /\ \A fn \in DOMAIN files : files[fn].estado = "completo"

C3_Witness ==
  /\ pc = "fim"
  /\ args.format = "both"
  /\ DOMAIN files = {Filename(args, ".json"), Filename(args, ".html")}

Renderers == {"salvar_json", "gerar_html", "gerar_excel"}

RendererRank(op) ==
  CASE op = "salvar_json" -> 1 [] op = "gerar_html" -> 2
    [] op = "gerar_excel" -> 3

RendererExt(op) ==
  CASE op = "salvar_json" -> ".json" [] op = "gerar_html" -> ".html"
    [] op = "gerar_excel" -> ".xlsx"

\* C4: renderers run in the order salvar_json, gerar_html, gerar_excel; the
\* artifact of a renderer that returned stays written whatever happens to a
\* later renderer, and no renderer runs after one that failed.
C4_NoRollback ==
  \A n \in DOMAIN calls :
    calls[n].op \in Renderers =>
      /\ \A m \in 1..(n - 1) :
           calls[m].op \in Renderers =>
             RendererRank(calls[m].op) < RendererRank(calls[n].op)
      /\ calls[n].ok =>
           /\ Filename(args, RendererExt(calls[n].op)) \in DOMAIN files
           /\ files[Filename(args, RendererExt(calls[n].op))].estado =
                "completo"
      /\ ~calls[n].ok => n = Len(calls) /\ pc = "falha"

C4_Witness ==
  /\ CallFailed("gerar_html")
  /\ WasCalled("salvar_json")
  /\ Filename(args, ".json") \in DOMAIN files
  /\ files[Filename(args, ".json")].estado = "completo"
  /\ args.format = "all"

\* C5: when the API returns no host for the requested name, obter_host_id
\* raises an error whose message contains that name, the run aborts, and no
\* item, trigger, problem or event query is issued.
C5_HostNotFound ==
  (hosts = Bound(<<>>)) =>
    /\ erro.tipo = "ValueError"
    /\ \E n \in DOMAIN erro.msg : erro.msg[n] = args.hostname
    /\ pc = "falha"
    /\ \A op \in QueryOps : ~WasCalled(op)
    /\ DOMAIN export_data = {}

C5_Witness ==
  /\ hosts = Bound(<<>>)
  /\ pc = "falha"
  /\ Ops = <<"conectar_zabbix", "obter_host_id">>

----------------------------------------------------------------------------
(* Properties of gerar_estatisticas *)

\* stats holds gerar_estatisticas(export_data["itens"], export_data["triggers"])
Gerado == WasCalled("gerar_estatisticas")

Itens == export_data["itens"]

Triggers == export_data["triggers"]

HasStatus(x, S) == "status" \in DOMAIN x /\ x["status"] \in S

\* records of xs with a status code other than "0" and "1"
OutroStatus(xs) ==
  {n \in DOMAIN xs : "status" \in DOMAIN xs[n] /\ xs[n]["status"] \notin {"0", "1"}}

BucketsOk(xs, total, ativos, desabilitados) ==
  /\ total = Len(xs)
  /\ ativos + desabilitados <= total - Cardinality(OutroStatus(xs))
  /\ (\A n \in DOMAIN xs : HasStatus(xs[n], {"0", "1"})) =>
       ativos + desabilitados = total

\* C6: ativos + desabilitados = total when every status is "0" or "1"; a
\* record with another status code is in total and in neither bucket, so
\* ativos + desabilitados <= total; the same for triggers.
C6_ActivePlusDisabled ==
  Gerado =>
    /\ BucketsOk(Itens, stats.itens.total, stats.itens.ativos,
                 stats.itens.desabilitados)
    /\ BucketsOk(Triggers, stats.triggers.total, stats.triggers.ativas,
                 stats.triggers.desabilitadas)

C6_Witness ==
  /\ Gerado
  /\ OutroStatus(Itens) # {}
  /\ stats.itens.ativos = 1
  /\ stats.itens.total = 2
  /\ stats.itens.desabilitados = 0

\* C7: the counts of triggers.por_prioridade sum to triggers.total, also
\* with absent and out-of-range priority codes.
C7_PrioritySum ==
  Gerado =>
    /\ CounterSum(stats.triggers.por_prioridade) = stats.triggers.total
    /\ stats.triggers.total = Len(Triggers)

C7_Witness ==
  /\ Gerado
  /\ \E n \in DOMAIN Triggers : "priority" \notin DOMAIN Triggers[n]
  /\ \E n \in DOMAIN Triggers :
       "priority" \in DOMAIN Triggers[n] /\ Triggers[n]["priority"] = "9"
  /\ stats.triggers.total = 3

\* triggers whose priority field is present and holds code
Carrying(code) ==
  {n \in DOMAIN Triggers :
     "priority" \in DOMAIN Triggers[n] /\ Triggers[n]["priority"] = code}

\* triggers whose priority field holds code, an absent field counting as "0"
CarryingOrDefault(code) ==
  Carrying(code) \cup
  (IF code = "0"
   THEN {n \in DOMAIN Triggers : "priority" \notin DOMAIN Triggers[n]}
   ELSE {})

PriorityCodes == {"0", "1", "2", "3", "4", "5", "9"}

\* the scenario of C8: items with status "0", "1" and triggers with
\* priorities "5", "3", "3"
Cenario ==
  /\ Len(Itens) = 2
  /\ HasStatus(Itens[1], {"0"})
  /\ HasStatus(Itens[2], {"1"})
  /\ Len(Triggers) = 3
  /\ Carrying("5") = {1}
  /\ Carrying("3") = {2, 3}

CenarioOk ==
  /\ stats.itens.total = 2
  /\ stats.itens.ativos = 1
  /\ stats.itens.desabilitados = 1
  /\ stats.triggers.total = 3
  /\ CounterKeys(stats.triggers.por_prioridade) = {"5", "3"}
  /\ CounterGet(stats.triggers.por_prioridade, "5") = 1
  /\ CounterGet(stats.triggers.por_prioridade, "3") = 2

\* C8 as stated: por_prioridade maps each priority code occurring in the
\* triggers to the number of triggers carrying it and has no entry for a code
\* that does not occur; the scenario yields {5:1, 3:2}.
C8_Original ==
  Gerado =>
    /\ \A code \in PriorityCodes :
         IF Carrying(code) # {}
         THEN CounterGet(stats.triggers.por_prioridade, code) =
                Cardinality(Carrying(code))
         ELSE code \notin CounterKeys(stats.triggers.por_prioridade)
    /\ Cenario => CenarioOk

\* C8: por_prioridade maps each priority code to the number of triggers
\* carrying it, a trigger without a priority field counting as carrying "0",
\* and has no entry for any other code; the scenario yields {5:1, 3:2}.
C8_PriorityTable ==
  Gerado =>
    /\ \A code \in PriorityCodes :
         IF CarryingOrDefault(code) # {}
         THEN CounterGet(stats.triggers.por_prioridade, code) =
                Cardinality(CarryingOrDefault(code))
         ELSE code \notin CounterKeys(stats.triggers.por_prioridade)
    /\ CounterKeys(stats.triggers.por_prioridade) \subseteq PriorityCodes
    /\ Cenario => CenarioOk

C8_Witness ==
  /\ Gerado
  /\ Cenario
  /\ CenarioOk

\* x with the missing-data defaults of its absent fields filled in
ComStatus(x) == IF "status" \in DOMAIN x THEN x ELSE SetItem(x, "status", "0")

ComPrioridade(t) ==
  IF "priority" \in DOMAIN t THEN t ELSE SetItem(t, "priority", "0")

\* C9: the statistics are those of the same records with status "0" in place
\* of every absent status and priority "0" in place of every absent priority.
C9_AbsentAsDefault ==
  Gerado =>
    stats = gerar_estatisticas(
              [n \in DOMAIN Itens |-> ComStatus(Itens[n])],
              [n \in DOMAIN Triggers |-> ComPrioridade(ComStatus(Triggers[n]))])

\* items whose type (value type) code is absent or not a key of the table
SemTipo == {n \in DOMAIN Itens :
              \/ "type" \notin DOMAIN Itens[n]
              \/ Itens[n]["type"] \notin DOMAIN ITEM_TYPES}

SemValor == {n \in DOMAIN Itens :
               \/ "value_type" \notin DOMAIN Itens[n]
               \/ Itens[n]["value_type"] \notin DOMAIN VALUE_TYPES}

\* a Counter with one entry per key
Distinct(c) == \A n, m \in DOMAIN c : c[n].key = c[m].key => n = m

\* C10: items whose type (value type) code is absent or unknown are counted
\* in the one bucket "Desconhecido" of por_tipo (por_valor), every other item
\* in the bucket of its label, and the counts of each table sum to total.
C10_UnknownBucket ==
  Gerado =>
    /\ Distinct(stats.itens.por_tipo)
    /\ Distinct(stats.itens.por_valor)
    /\ CounterGet(stats.itens.por_tipo, "Desconhecido") = Cardinality(SemTipo)
    /\ CounterGet(stats.itens.por_valor, "Desconhecido") =
         Cardinality(SemValor)
    /\ \A c \in DOMAIN ITEM_TYPES :
         CounterGet(stats.itens.por_tipo, ITEM_TYPES[c]) =
           Cardinality({n \in DOMAIN Itens \ SemTipo : Itens[n]["type"] = c})
    /\ \A c \in DOMAIN VALUE_TYPES :
         CounterGet(stats.itens.por_valor, VALUE_TYPES[c]) =
           Cardinality({n \in DOMAIN Itens \ SemValor :
                          Itens[n]["value_type"] = c})
    /\ CounterSum(stats.itens.por_tipo) = stats.itens.total
    /\ CounterSum(stats.itens.por_valor) = stats.itens.total

C10_Witness ==
  /\ Gerado
  /\ Len(Itens) = 2
  /\ Cardinality(SemTipo) = 2
  /\ "type" \in DOMAIN Itens[1]
  /\ "type" \notin DOMAIN Itens[2]
  /\ CounterGet(stats.itens.por_tipo, "Desconhecido") = 2

----------------------------------------------------------------------------
(* Properties of the renderers *)

HtmlFile == Filename(args, ".html")

XlsxFile == Filename(args, ".xlsx")

Written(fn) == fn \in DOMAIN files /\ files[fn].estado = "completo"

\* the document and the workbook written by the run
Html == files[HtmlFile].conteudo

Xlsx == files[XlsxFile].conteudo

Problems == export_data["problems"]

Events == export_data["events"]

DataErrors == {"AttributeError", "TypeError", "ValueError", "KeyError"}

\* C11: gerar_html raises no exception on record data: with absent or
\* malformed fields it completes, failing only on file I/O.
C11_NoDataError ==
  CallFailed("gerar_html") => erro.tipo \notin DataErrors

\* C12: for every item and trigger the status label of the spreadsheet row
\* is the status label of the document row.
C12_SameStatusLabel ==
  (Written(HtmlFile) /\ Written(XlsxFile)) =>
    /\ \A n \in DOMAIN Html.itens :
         Xlsx.itens[n].status = Html.itens[n].status
    /\ \A n \in DOMAIN Html.triggers :
         Xlsx.triggers[n].status = Html.triggers[n].status

Ocorrencias(name) ==
  Cardinality({n \in DOMAIN Events : EventName(Events[n]) = name})

\* the position at which a name is first encountered in the event sequence
Primeira(name) ==
  CHOOSE n \in DOMAIN Events :
    /\ EventName(Events[n]) = name
    /\ \A m \in 1..(n - 1) : EventName(Events[m]) # name

EventNames == {EventName(Events[n]) : n \in DOMAIN Events}

Listed(rows) == {rows[n].name : n \in DOMAIN rows}

RankingOk(rows) ==
  /\ Len(rows) <= 20
  /\ Listed(rows) \subseteq EventNames
  /\ \A n \in DOMAIN rows : rows[n].count = Ocorrencias(rows[n].name)
  /\ \A n, m \in DOMAIN rows :
       n < m =>
         /\ rows[n].name # rows[m].name
         /\ rows[n].count >= rows[m].count
         /\ rows[n].count = rows[m].count =>
              Primeira(rows[n].name) < Primeira(rows[m].name)
  /\ \A name \in EventNames \ Listed(rows) :
       /\ Len(rows) = 20
       /\ Ocorrencias(name) <= rows[Len(rows)].count

RankingABC(rows) ==
  [n \in DOMAIN Events |-> EventName(Events[n])]
    = <<"A", "A", "B", "C", "C", "C">> =>
      [n \in DOMAIN rows |-> <<rows[n].name, rows[n].count>>]
        = <<(<<"C", 3>>), (<<"A", 2>>), (<<"B", 1>>)>>

\* C13: in the document and in the workbook the frequency rows are the event
\* names with their numbers of events, at most 20 of them, counts
\* non-increasing, equal counts in first-encountered order, every omitted
\* name counting no more than the last row; [A,A,B,C,C,C] ranks C:3, A:2, B:1.
C13_EventRanking ==
  /\ (Written(HtmlFile) /\ Events # <<>>) =>
       RankingOk(Html.top[1]) /\ RankingABC(Html.top[1])
  /\ (Written(XlsxFile) /\ Events # <<>>) =>
       RankingOk(Xlsx.top[1]) /\ RankingABC(Xlsx.top[1])

\* more than 20 names, one of the omitted ones tied with the last row
C13_Witness ==
  /\ Written(HtmlFile)
  /\ Written(XlsxFile)
  /\ Cardinality(EventNames) = 22
  /\ Len(Xlsx.top[1]) = 20
  /\ Xlsx.top[1][1].count = 2
  /\ Html.top[1][20].count = 1

Largura(bar) == bar.percentage

BarsOk(bars, counter) ==
  /\ \A n \in DOMAIN bars :
       /\ Largura(bars[n]).den = MaxCount(bars)
       /\ Largura(bars[n]).num = bars[n].count * 100
       /\ bars[n].count = CounterGet(counter, bars[n].label)
       \* the width is in (0, 100]
       /\ 0 < Largura(bars[n]).num
       /\ Largura(bars[n]).num <= 100 * Largura(bars[n]).den
  /\ bars # <<>> =>
       \E n \in DOMAIN bars :
         /\ Largura(bars[n]).num = 100 * Largura(bars[n]).den
         /\ \A m \in DOMAIN bars : bars[m].count <= bars[n].count

RECURSIVE SumNum(_)
SumNum(rows) ==
  IF rows = <<>> THEN 0 ELSE Head(rows).percentual.num + SumNum(Tail(rows))

\* C14: a bar of the two charts is count / (largest count charted) * 100
\* wide, which is in (0, 100] and 100 for the largest group; a percentage of
\* the frequency table is count / (number of events fetched) * 100, and the
\* listed percentages sum to at most 100.
C14_Denominators ==
  Written(HtmlFile) =>
    /\ BarsOk(Html.bars_tipo, stats.itens.por_tipo)
    /\ BarsOk(Html.bars_valor, stats.itens.por_valor)
    /\ Events # <<>> =>
         /\ \A n \in DOMAIN Html.top[1] :
              Html.top[1][n].percentual
                = [num |-> Html.top[1][n].count * 100, den |-> Len(Events)]
         /\ SumNum(Html.top[1]) <= 100 * Len(Events)

\* two value types, one twice as frequent as the other
C14_Witness ==
  /\ Written(HtmlFile)
  /\ Len(Html.bars_valor) = 2
  /\ Largura(Html.bars_valor[1]) = [num |-> 200, den |-> 2]
  /\ Largura(Html.bars_valor[2]) = [num |-> 100, den |-> 2]

\* the duration text of d seconds as the specification words it
DuracaoTexto(d) ==
  LET days == d \div 86400
      hours == (d % 86400) \div 3600
      minutes == (d % 3600) \div 60
  IN  IF days >= 1
      THEN [forma |-> "dhm", dias |-> days, horas |-> hours,
            minutos |-> minutes]
      ELSE IF days = 0 /\ hours >= 1
      THEN [forma |-> "hm", horas |-> hours, minutos |-> minutes]
      ELSE [forma |-> "m", minutos |-> minutes]

SemInicio(problem) ==
  "clock" \notin DOMAIN problem \/ IntOf(problem["clock"]) = 0

DuracaoOk(row) ==
  IF SemInicio(row.de)
  THEN row.inicio = [forma |-> "-"] /\ row.duracao = [forma |-> "-"]
  ELSE LET d == row.agora - IntOf(row.de["clock"])
       IN  /\ row.duracao = DuracaoTexto(d)
           /\ d = 0 => row.duracao = [forma |-> "m", minutos |-> 0]
           /\ d = 3600 =>
                row.duracao = [forma |-> "hm", horas |-> 1, minutos |-> 0]
           /\ d = 90000 =>
                row.duracao = [forma |-> "dhm", dias |-> 1, horas |-> 1,
                               minutos |-> 0]

\* C15: a problem without a start time, or with start time 0, shows "-" as
\* start and as duration; otherwise, d being the seconds from the start to
\* the time read, the duration shows days, hours and minutes when days >= 1,
\* hours and minutes when days = 0 and hours >= 1, and minutes otherwise.
C15_DurationText ==
  /\ (Written(HtmlFile) /\ Problems # <<>>) =>
       \A n \in DOMAIN Html.problems : DuracaoOk(Html.problems[n])
  /\ (Written(XlsxFile) /\ Problems # <<>>) =>
       \A n \in DOMAIN Xlsx.alertas.rows : DuracaoOk(Xlsx.alertas.rows[n])

\* the same for the problems that started no later than the time read
PastStartsOk ==
  /\ (Written(HtmlFile) /\ Problems # <<>>) =>
       \A n \in DOMAIN Html.problems :
         (SemInicio(Html.problems[n].de)
          \/ Html.problems[n].agora >= IntOf(Html.problems[n].de["clock"]))
           => DuracaoOk(Html.problems[n])
  /\ (Written(XlsxFile) /\ Problems # <<>>) =>
       \A n \in DOMAIN Xlsx.alertas.rows :
         (SemInicio(Xlsx.alertas.rows[n].de)
          \/ Xlsx.alertas.rows[n].agora
               >= IntOf(Xlsx.alertas.rows[n].de["clock"]))
           => DuracaoOk(Xlsx.alertas.rows[n])

Placeholder(row) == "texto" \in DOMAIN row /\ row.texto = NenhumAlerta

\* C16: without problems the document's table has exactly one row, the
\* placeholder, and the sheet has the notice in A2 with exactly A2:E2 merged,
\* neither renderer failing on the empty list; with problems both have one
\* data row per problem, in order, and no placeholder.
C16_ProblemsTable ==
  /\ Written(HtmlFile) =>
       IF Problems = <<>>
       THEN Len(Html.problems) = 1 /\ Placeholder(Html.problems[1])
       ELSE /\ Len(Html.problems) = Len(Problems)
            /\ \A n \in DOMAIN Problems :
                 /\ ~Placeholder(Html.problems[n])
                 /\ Html.problems[n].de = Problems[n]
  /\ Written(XlsxFile) =>
       IF Problems = <<>>
       THEN /\ Xlsx.alertas.rows = <<>>
            /\ DOMAIN Xlsx.alertas.cells = {"A2"}
            /\ Xlsx.alertas.cells["A2"] = NenhumAlerta
            /\ Xlsx.alertas.merged = {"A2:E2"}
       ELSE /\ Len(Xlsx.alertas.rows) = Len(Problems)
            /\ \A n \in DOMAIN Problems :
                 Xlsx.alertas.rows[n].de = Problems[n]
            /\ DOMAIN Xlsx.alertas.cells = {}
            /\ Xlsx.alertas.merged = {}
  /\ (Problems = <<>> /\ Itens = <<>> /\ Triggers = <<>>) =>
       \A op \in {"gerar_html", "gerar_excel"} :
         CallFailed(op) => erro.tipo \notin DataErrors

\* both renderers have written the report of a host without problems
C16_Witness ==
  /\ Written(HtmlFile)
  /\ Written(XlsxFile)
  /\ Problems = <<>>
  /\ Html.problems = <<[colspan |-> 5, texto |-> NenhumAlerta]>>
  /\ Xlsx.alertas.merged = {"A2:E2"}

\* the cells of a frequency row: position, name, count, percentage text
Celulas(row) == <<row.pos, row.name, row.count, row.texto>>

\* C17: the document has a frequency table, and the workbook a sheet "Top 20
\* Alertas", exactly when there are events; the rows of the sheet are then
\* the rows of the table, cell by cell.
C17_FrequencySection ==
  /\ Written(HtmlFile) => (Html.top # Unbound <=> Events # <<>>)
  /\ Written(XlsxFile) => (Xlsx.top # Unbound <=> Events # <<>>)
  /\ (Written(HtmlFile) /\ Written(XlsxFile) /\ Events # <<>>) =>
       /\ Len(Xlsx.top[1]) = Len(Html.top[1])
       /\ \A n \in DOMAIN Html.top[1] :
            /\ Celulas(Xlsx.top[1][n]) = Celulas(Html.top[1][n])
            /\ Html.top[1][n].pos = n

\* three names ranked in both outputs, the first with 3 of 6 events: 50.0%
C17_Witness ==
  /\ Written(HtmlFile)
  /\ Written(XlsxFile)
  /\ Len(Events) = 6
  /\ Len(Xlsx.top[1]) = 3
  /\ Celulas(Xlsx.top[1][1])
       = <<1, "C", 3, [inteiro |-> 50, decimo |-> 0]>>

\* the records rendered by the rows of a table, in the order of the rows
Rendered(rows) == [n \in DOMAIN rows |-> rows[n].de]

Vezes(xs, x) == Cardinality({n \in DOMAIN xs : xs[n] = x})

\* ys holds the records of xs, each as often as xs does
Permutation(ys, xs) ==
  /\ Len(ys) = Len(xs)
  /\ \A n \in DOMAIN xs : Vezes(ys, xs[n]) = Vezes(xs, xs[n])

Prioridade(t) ==
  IF "priority" \in DOMAIN t THEN IntOf(t["priority"]) ELSE 0

Descricao(t) ==
  LowerOrds(IF "description" \in DOMAIN t THEN t["description"] ELSE "")

TriggersOrdered(ts) ==
  \A n, m \in DOMAIN ts :
    n < m =>
      \/ Prioridade(ts[n]) > Prioridade(ts[m])
      \/ /\ Prioridade(ts[n]) = Prioridade(ts[m])
         /\ ~LexLess(Descricao(ts[m]), Descricao(ts[n]))

\* C18: the trigger rows of the document and of the workbook render a
\* permutation of the fetched triggers, by priority as a number descending
\* (absent: 0) and, within a priority, by lower-cased description ascending.
C18_TriggerOrder ==
  /\ Written(HtmlFile) =>
       /\ Permutation(Rendered(Html.triggers), Triggers)
       /\ TriggersOrdered(Rendered(Html.triggers))
  /\ Written(XlsxFile) =>
       /\ Permutation(Rendered(Xlsx.triggers), Triggers)
       /\ TriggersOrdered(Rendered(Xlsx.triggers))

\* priority "10" is rendered before "5" and the absent priority last; as
\* text "5" would come first
C18_Witness ==
  /\ Written(HtmlFile)
  /\ Written(XlsxFile)
  /\ Triggers = <<[description |-> "a"],
                  [priority |-> "5", description |-> "a"],
                  [priority |-> "10", description |-> "B"]>>
  /\ Rendered(Xlsx.triggers) = <<Triggers[3], Triggers[2], Triggers[1]>>
  /\ Rendered(Html.triggers) = Rendered(Xlsx.triggers)

Nome(i) == LowerOrds(IF "name" \in DOMAIN i THEN i["name"] ELSE "")

ItensOrdered(is) ==
  \A n, m \in DOMAIN is : n < m => ~LexLess(Nome(is[m]), Nome(is[n]))

\* C19: the item rows of the document and of the workbook render a
\* permutation of the fetched items, none dropped or repeated, ascending by
\* lower-cased name, an item without a name sorting as the empty string.
C19_ItemOrder ==
  /\ Written(HtmlFile) =>
       /\ Permutation(Rendered(Html.itens), Itens)
       /\ ItensOrdered(Rendered(Html.itens))
  /\ Written(XlsxFile) =>
       /\ Permutation(Rendered(Xlsx.itens), Itens)
       /\ ItensOrdered(Rendered(Xlsx.itens))

\* "B" is rendered after "a" although its code point is lower, and the item
\* without a name first
C19_Witness ==
  /\ Written(HtmlFile)
  /\ Written(XlsxFile)
  /\ Itens = <<[name |-> "B", status |-> "0"], [name |-> "a", status |-> "0"],
               [status |-> "0"]>>
  /\ Rendered(Html.itens) = <<Itens[3], Itens[2], Itens[1]>>
  /\ Rendered(Xlsx.itens) = Rendered(Html.itens)

\* the records of xs with sort key k, in their order in xs
ComChave(xs, keys, k) ==
  LET RECURSIVE De(_)
      De(n) == IF n > Len(xs) THEN <<>>
               ELSE IF keys[n] = k THEN <<xs[n]>> \o De(n + 1)
               ELSE De(n + 1)
  IN  De(1)

ItemKeys(is) == [n \in DOMAIN is |-> ItemSortKey(is[n])]

TriggerKeys(ts) == [n \in DOMAIN ts |-> TriggerSortKey(ts[n])]

\* sorted is what sorting it again gives, and keeps records of equal key in
\* the order of fetched
ItensStable(sorted, fetched) ==
  /\ itens_sorted(sorted) = sorted
  /\ \A n \in DOMAIN fetched :
       ComChave(sorted, ItemKeys(sorted), ItemSortKey(fetched[n]))
         = ComChave(fetched, ItemKeys(fetched), ItemSortKey(fetched[n]))

TriggersStable(sorted, fetched) ==
  /\ triggers_sorted(sorted) = sorted
  /\ \A n \in DOMAIN fetched :
       ComChave(sorted, TriggerKeys(sorted), TriggerSortKey(fetched[n]))
         = ComChave(fetched, TriggerKeys(fetched), TriggerSortKey(fetched[n]))

\* C20: sorting the rendered items (triggers) again by the item (trigger)
\* comparator changes nothing, and records with equal sort keys are rendered
\* in the order in which they were fetched.
C20_SortStable ==
  /\ Written(HtmlFile) =>
       /\ ItensStable(Rendered(Html.itens), Itens)
       /\ TriggersStable(Rendered(Html.triggers), Triggers)
  /\ Written(XlsxFile) =>
       /\ ItensStable(Rendered(Xlsx.itens), Itens)
       /\ TriggersStable(Rendered(Xlsx.triggers), Triggers)

\* "a" and "A" have one sort key and stay in fetch order behind ""
C20_Witness ==
  /\ Written(HtmlFile)
  /\ Written(XlsxFile)
  /\ Itens = <<[name |-> "a", status |-> "0"], [name |-> "A", status |-> "0"],
               [status |-> "0"]>>
  /\ Rendered(Html.itens) = <<Itens[3], Itens[1], Itens[2]>>
  /\ Rendered(Xlsx.itens) = Rendered(Html.itens)

\* C21: the n-th problem row of the document, and of the workbook, renders
\* the n-th fetched problem: the rows are the fetched problems in their order.
C21_ProblemOrder ==
  /\ (Written(HtmlFile) /\ Problems # <<>>) =>
       Rendered(Html.problems) = Problems
  /\ Written(XlsxFile) => Rendered(Xlsx.alertas.rows) = Problems

\* two problems fetched, the one without a start time first
C21_Witness ==
  /\ Written(HtmlFile)
  /\ Written(XlsxFile)
  /\ Len(Problems) = 2
  /\ SemInicio(Problems[1])
  /\ ~SemInicio(Problems[2])
  /\ Html.problems[2].name = "Host down"
  /\ Xlsx.alertas.rows[2].name = "Host down"

StatusAgree(row) ==
  /\ row.status = "Ativo" => row.classe = "status-active"
  /\ row.classe = "status-disabled" => row.status # "Ativo"

\* C24: in the item and trigger tables of the document a cell labelled
\* "Ativo" has class status-active, and a cell of class status-disabled is
\* not labelled "Ativo".
C24_LabelAndClass ==
  Written(HtmlFile) =>
    /\ \A n \in DOMAIN Html.itens : StatusAgree(Html.itens[n])
    /\ \A n \in DOMAIN Html.triggers : StatusAgree(Html.triggers[n])

Componentes(d) ==
  /\ d.forma \in {"dhm", "hm", "m"}
  /\ "dias" \in DOMAIN d <=> d.forma = "dhm"
  /\ d.forma = "dhm" => d.dias >= 1
  /\ "horas" \in DOMAIN d <=> d.forma \in {"dhm", "hm"}
  /\ d.forma \in {"dhm", "hm"} => d.horas \in 0..23
  /\ d.minutos \in 0..59

\* C25: the duration of a problem with a start time, also one later than the
\* time read, shows no negative component: days only when >= 1, hours within
\* 0..23, minutes within 0..59.
C25_NoNegativeComponent ==
  /\ (Written(HtmlFile) /\ Problems # <<>>) =>
       \A n \in DOMAIN Html.problems :
         ~SemInicio(Html.problems[n].de) =>
           Componentes(Html.problems[n].duracao)
  /\ Written(XlsxFile) =>
       \A n \in DOMAIN Xlsx.alertas.rows :
         ~SemInicio(Xlsx.alertas.rows[n].de) =>
           Componentes(Xlsx.alertas.rows[n].duracao)

\* a problem that starts 100 s after the time read: "23h 58m"
C25_Witness ==
  /\ Written(HtmlFile)
  /\ Written(XlsxFile)
  /\ \E n \in DOMAIN Problems :
       /\ ~SemInicio(Problems[n])
       /\ Html.problems[n].agora < Clock(Problems[n])
       /\ Html.problems[n].duracao
            = [forma |-> "hm", horas |-> 23, minutos |-> 58]
       /\ Xlsx.alertas.rows[n].agora < Clock(Problems[n])
       /\ Xlsx.alertas.rows[n].duracao = Html.problems[n].duracao

JsonFile == Filename(args, ".json")

\* C22: the document written by salvar_json, parsed again, is export_data:
\* every field name and every value of export_info, host, itens, triggers,
\* problems and events as fetched.
C22_JsonRoundTrip ==
  Written(JsonFile) => json_load(files[JsonFile].conteudo) = export_data

\* the document of a host with items, triggers, a problem and events; it holds
\* items with tags and a preprocessing step and a trigger with a dependency
C22_Witness ==
  /\ Written(JsonFile)
  /\ WasCalled("salvar_json")
  /\ Itens = ItensExemplo
  /\ Triggers = TriggersExemplo
  /\ Problems # <<>>
  /\ Events # <<>>
  /\ Len(files[JsonFile].conteudo) > 100

\* the states of main() from the last fetch to the last renderer
AposFetch == {"events", "estatisticas", "json", "html"}

\* a step of main() after the last fetch keeps export_data, and after
\* gerar_estatisticas the statistics
SnapshotKept ==
  pc \in AposFetch =>
    /\ export_data' = export_data
    /\ pc # "events" => stats' = stats

\* C23: gerar_estatisticas, salvar_json, gerar_html and gerar_excel leave
\* export_data as it was fetched, and the three that receive the statistics
\* leave the statistics as computed.
C23_SnapshotImmutable == [][SnapshotKept]_vars

\* the three renderers have run, one after the other, on fetched records
C23_Witness ==
  /\ pc = "excel"
  /\ Written(JsonFile)
  /\ Written(HtmlFile)
  /\ Written(XlsxFile)
  /\ Itens = ItensExemplo
  /\ Triggers = TriggersExemplo
  /\ stats.itens.total = 2
  /\ json_load(files[JsonFile].conteudo)["itens"] = Rendered(Xlsx.itens)

====
